---- MODULE Spec2Model ----
(***************************************************************************)
(* Verification model of the traffic-routing and validation core:          *)
(*   - the data-engine run store and harness driver (data-engine/api.py),  *)
(*   - the concurrent test harness (test-harness/harness.py),              *)
(*   - the gateway router and dispatcher (gateway/routing.py, main.py).    *)
(*                                                                         *)
(* Conventions.  Python's None for an optional value is the empty sequence *)
(* <<>> and a present value v is <<v>>; a missing category is the empty    *)
(* string (the code treats None and "" alike: `r.category or ...`).        *)
(* pass_rate is kept in tenths of a percent (66.7 is 667).  Latency and    *)
(* token averages are wall-clock measurements and are not modelled.        *)
(***************************************************************************)
EXTENDS Integers, Sequences, FiniteSets, TLC

VARIABLES
    runs,       \* api.py `_runs`: run_id -> run record
    frames,     \* the coroutine frame of each run: arguments, harness, tasks
    nextId,     \* number of run ids handed out so far
    benchmarks, \* api.py `_benchmarks`: benchmark_id -> benchmark record
    bframes,    \* the coroutine frame of each benchmark
    routes,     \* routing.py `Router.routes`: team -> RouteConfig
    selection,  \* the last direct call of Router.select_variant and its result
    gw,         \* the gateway's predict handler: the request being served
    validated,  \* a direct call of TestHarness._validate_response
    propagated  \* a direct call of create_propagation_headers

storeVars == <<runs, frames, nextId>>
benchVars == <<benchmarks, bframes>>
gwVars == <<routes, selection, gw>>
fnVars == <<validated, propagated>>
vars == <<runs, frames, nextId, benchmarks, bframes, routes, selection, gw,
          validated, propagated>>

(***************************************************************************)
(* Bounds of the model.                                                    *)
(***************************************************************************)
MaxPrompts == 3
MaxConcurrency == 2
\* Bounds of the specification of the shared stores (several runs).
MaxStoreRuns == 2
MaxStorePrompts == 1
MaxBenchmarks == 1
\* Bounds of the gateway's route table.
MaxVariants == 2
MaxWeight == 2
\* Bounds of the validator's inputs: length of a response text, number of
\* expected terms.
MaxTextLen == 2
MaxTerms == 2
\* Bound of the specification of the aggregation: prompts of one run.
MaxAggregated == 22

(***************************************************************************)
(* Input domains.                                                          *)
(***************************************************************************)
NoCategory == ""
Categories == {NoCategory, "math"}

\* A line of promptset.jsonl.  prompt_id is the line's position; hasId is
\* FALSE for a record that lacks the "prompt_id" key.
PromptRecords == {p \in [category : Categories, hasId : BOOLEAN] :
                    ~p.hasId => p.category = NoCategory}

RECURSIVE SeqsUpTo(_, _)
SeqsUpTo(S, n) ==
    IF n = 0 THEN {<<>>}
    ELSE LET shorter == SeqsUpTo(S, n - 1)
         IN  shorter \cup {Append(s, x) : s \in {t \in shorter : Len(t) = n - 1}, x \in S}

PromptSets == SeqsUpTo(PromptRecords, MaxPrompts)

\* Values of HarnessRunRequest.concurrency: any int is accepted.
Concurrencies == (0 - 1) .. MaxConcurrency
\* Values of HarnessRunRequest.max_prompts; 0 also stands for None
\* (`if max_prompts and ...` treats both alike).
MaxPromptsArgs == (0 - 1) .. MaxPrompts

\* str(e) of a transport exception; httpx timeouts may carry an empty text.
ErrorTexts == {"", "ConnectError"}
KeyErrorText == "'prompt_id'"
SemaphoreErrorText == "Semaphore initial value must be >= 0"
LoadErrorText == "promptset unreadable"
\* `baseline_response = "[baseline error]"`
BaselineSentinel == "[baseline error]"

\* Outcome of one outbound call as the harness sees it.
CallOutcomes == [kind : {"ok"}, passed : BOOLEAN, text : {""}]
                \cup [kind : {"exc"}, passed : {FALSE}, text : ErrorTexts]

(***************************************************************************)
(* Pure helpers of the harness driver.                                     *)
(***************************************************************************)
Min(a, b) == IF a < b THEN a ELSE b
Max(a, b) == IF a > b THEN a ELSE b

\* Python slice prompts[:m]; a negative m drops the last -m elements.
SlicePrefix(s, m) ==
    IF m >= 0 THEN SubSeq(s, 1, Min(m, Len(s)))
    ELSE SubSeq(s, 1, Max(Len(s) + m, 0))

\* api.py: `if max_prompts and max_prompts < len(prompts): prompts = prompts[:max_prompts]`
Truncate(prompts, m) ==
    IF m # 0 /\ m < Len(prompts) THEN SlicePrefix(prompts, m) ELSE prompts

\* Python round(): the nearest integer to num/den, ties to the even one.
RoundHalfEven(num, den) ==
    LET q == num \div den
        r == num % den
    IN  IF 2 * r < den THEN q
        ELSE IF 2 * r > den THEN q + 1
        ELSE IF q % 2 = 0 THEN q ELSE q + 1

\* A plausible slip: truncating instead of rounding.
PassRateTruncating(passed, n) == IF n > 0 THEN (passed * 1000) \div n ELSE 0
\* `round(passed / len(results) * 100, 1) if results else 0`, in tenths.
PassRate(passed, n) == IF n > 0 THEN RoundHalfEven(passed * 1000, n) ELSE 0

\* `sum(1 for r in results if r.passed)`
PassedCount(results) == Cardinality({i \in DOMAIN results : results[i].passed})
\* `sum(1 for r in results if not r.passed)`
FailedCount(results) == Cardinality({i \in DOMAIN results : ~results[i].passed})

\* A plausible slip: the except branch lets the prompt count as passed.
FailedResultPassing(id, text) ==
    [prompt_id |-> id, passed |-> TRUE, error |-> <<text>>, category |-> NoCategory,
     baseline_response |-> <<>>, baseline_passed |-> <<>>]
\* The HarnessResult of the except branch of execute_prompt (harness.py
\* 195-205); it leaves category at its default, None.
FailedResult(id, text) ==
    [prompt_id |-> id, passed |-> FALSE, error |-> <<text>>, category |-> NoCategory,
     baseline_response |-> <<>>, baseline_passed |-> <<>>]

\* The HarnessResult of the success branch of execute_prompt.
SuccessResult(id, category, passed, blResponse, blPassed) ==
    [prompt_id |-> id, passed |-> passed, error |-> <<>>, category |-> category,
     baseline_response |-> blResponse, baseline_passed |-> blPassed]

\* `r.error` is truthy: set and not the empty string.
HasError(r) == r.error # <<>> /\ r.error[1] # ""

\* `f"{r.prompt_id}: {r.error}"`
ErrorEntry(r) == [prompt_id |-> r.prompt_id, text |-> r.error[1]]
\* `str(exc)` of a run-level failure (no prompt id in front).
RunError(text) == [prompt_id |-> 0, text |-> text]

\* `[f"{r.prompt_id}: {r.error}" for r in results if r.error]`
ErrorEntries(results) ==
    LET kept == SelectSeq(results, HasError)
    IN  [i \in DOMAIN kept |-> ErrorEntry(kept[i])]

ErrorCap == 20

\* `cat = r.category or "uncategorized"`
CategoryKey(r) == IF r.category = NoCategory THEN "uncategorized" ELSE r.category

\* A plausible slip: the entry of a category is created anew at each of its
\* results instead of only at the first.
RECURSIVE CategoryBreakdownRecreating(_, _)
CategoryBreakdownRecreating(results, acc) ==
    IF results = <<>> THEN acc
    ELSE LET r == Head(results)
             cat == CategoryKey(r)
             upd == [total |-> 1, passed |-> (IF r.passed THEN 1 ELSE 0)]
             rest == [c \in DOMAIN acc \ {cat} |-> acc[c]]
         IN  CategoryBreakdownRecreating(Tail(results), rest @@ (cat :> upd))

\* The category loop of _execute_run: one pass over the results in order.
RECURSIVE CategoryBreakdown(_, _)
CategoryBreakdown(results, acc) ==
    IF results = <<>> THEN acc
    ELSE LET r == Head(results)
             cat == CategoryKey(r)
             cur == IF cat \in DOMAIN acc THEN acc[cat] ELSE [total |-> 0, passed |-> 0]
             upd == [total |-> cur.total + 1,
                     passed |-> cur.passed + (IF r.passed THEN 1 ELSE 0)]
             rest == [c \in DOMAIN acc \ {cat} |-> acc[c]]
         IN  CategoryBreakdown(Tail(results), rest @@ (cat :> upd))

\* The record start_harness_run stores (api.py 245-259); a benchmark stores
\* the same record with another status (api.py 298-312).
NewRunRecord(status) ==
    [status |-> status, total |-> 0, passed |-> 0, failed |-> 0, pass_rate |-> 0,
     category_breakdown |-> <<>>, completed |-> FALSE, errors |-> <<>>]

\* A plausible slip: the errors are stored without the cap.
CompletedUpdateUncapped(rec, results) ==
    LET passed == PassedCount(results)
        failed == FailedCount(results)
    IN  [rec EXCEPT !.status = "completed",
                    !.total = Len(results),
                    !.passed = passed,
                    !.failed = failed,
                    !.pass_rate = PassRate(passed, Len(results)),
                    !.category_breakdown = CategoryBreakdown(results, <<>>),
                    !.completed = TRUE,
                    !.errors = ErrorEntries(results)]

\* `_runs[run_id].update({...})` after the join barrier (api.py 181-209).
CompletedUpdate(rec, results) ==
    LET passed == PassedCount(results)
        failed == FailedCount(results)
        errors == ErrorEntries(results)
    IN  [rec EXCEPT !.status = "completed",
                    !.total = Len(results),
                    !.passed = passed,
                    !.failed = failed,
                    !.pass_rate = PassRate(passed, Len(results)),
                    !.category_breakdown = CategoryBreakdown(results, <<>>),
                    !.completed = TRUE,
                    !.errors = SubSeq(errors, 1, Min(ErrorCap, Len(errors)))]

\* A plausible slip: the except branch clears the counters of the record.
FailedUpdateResetting(rec, text) ==
    [rec EXCEPT !.status = "failed", !.total = 0, !.completed = TRUE,
                !.errors = <<RunError(text)>>]

\* `_runs[run_id].update({...})` of the except branch (api.py 211-216).
FailedUpdate(rec, text) ==
    [rec EXCEPT !.status = "failed", !.completed = TRUE, !.errors = <<RunError(text)>>]


(***************************************************************************)
(* The harness: TestHarness and its per-prompt tasks.                      *)
(***************************************************************************)
\* `asyncio.Semaphore(concurrency)`: the pool starts with `concurrency` slots.
SemaphoreInitOffByOne(concurrency) == concurrency + 1
SemaphoreInit(concurrency) == concurrency

NewTask == [pc |-> "waiting", result |-> <<>>]

\* A coroutine frame before its body has run.
NewFrame(origin, concurrency, maxPrompts, compare) ==
    [origin |-> origin, pc |-> "scheduled", concurrency |-> concurrency,
     max_prompts |-> maxPrompts, compare |-> compare,
     prompts |-> <<>>, sem |-> 0, tasks |-> <<>>, output |-> <<>>]

TaskTerminal(t) == t.pc \in {"done", "raised"}

\* asyncio.gather without return_exceptions: the first exception of a task
\* resolves the outer future at once; otherwise it resolves when all are done.
GatherRaised(fr) == \E i \in DOMAIN fr.tasks : fr.tasks[i].pc = "raised"
GatherDone(fr) == \A i \in DOMAIN fr.tasks : fr.tasks[i].pc = "done"
\* A plausible slip: the results collected in another order than the
\* order of the prompts (as asyncio.as_completed would give them).
GatherResultsOutOfOrder(fr) ==
    [i \in DOMAIN fr.tasks |-> fr.tasks[Len(fr.tasks) + 1 - i].result[1]]
\* The list gather returns: the results in the order of the tasks.
GatherResults(fr) == [i \in DOMAIN fr.tasks |-> fr.tasks[i].result[1]]

\* Once the driver has returned nothing refers to the results any more, and
\* once the last task has ended nothing refers to the tasks.
Settle(fr) ==
    IF fr.pc \notin {"returned", "crashed"} THEN fr
    ELSE IF \A i \in DOMAIN fr.tasks : TaskTerminal(fr.tasks[i])
         THEN [fr EXCEPT !.tasks = <<>>, !.prompts = <<>>]
         ELSE [fr EXCEPT !.tasks = [i \in DOMAIN fr.tasks |->
                                      [fr.tasks[i] EXCEPT !.result = <<>>]]]

\* TestHarness(...) followed by run_promptset up to its `await gather(...)`:
\* one task per prompt, none started yet.
StartPromptset(fr, prompts) ==
    [fr EXCEPT !.pc = "awaiting",
               !.prompts = prompts,
               !.sem = SemaphoreInit(fr.concurrency),
               !.tasks = [i \in 1 .. Len(prompts) |-> NewTask]]

\* execute_prompt from `async with self.semaphore` to the first await of the
\* call.  Tasks start in creation order and the semaphore wakes waiters in
\* FIFO order, so task i takes a slot only after every earlier task has.
\* A record without "prompt_id" raises KeyError inside the `async with`
\* (harness.py 92, outside the try): the slot is released and the
\* exception leaves the task.
TaskAcquire(id, i) ==
    /\ id \in DOMAIN frames
    /\ i \in DOMAIN frames[id].tasks
    /\ LET fr == frames[id]
       IN  /\ fr.tasks[i].pc = "waiting"
           /\ \A j \in 1 .. (i - 1) : fr.tasks[j].pc # "waiting"
           /\ fr.sem > 0
           /\ frames' = [frames EXCEPT ![id] = Settle(
                  IF fr.prompts[i].hasId
                  THEN [fr EXCEPT !.sem = fr.sem - 1, !.tasks[i].pc = "primary"]
                  ELSE [fr EXCEPT !.tasks[i].pc = "raised"])]
    /\ UNCHANGED <<fnVars, runs, nextId, benchVars, gwVars>>

\* A plausible slip: the slot taken and given back by hand, and not given
\* back when the call raises.
AfterPrimaryLeaking(fr, i, outcome) ==
    IF outcome.kind = "exc"
    THEN [fr EXCEPT !.tasks[i] = [pc |-> "done",
                                  result |-> <<FailedResult(i, outcome.text)>>]]
    ELSE IF fr.compare
    THEN [fr EXCEPT !.tasks[i] = [pc |-> "baseline",
                                  result |-> <<SuccessResult(i, fr.prompts[i].category,
                                                             outcome.passed, <<>>, <<>>)>>]]
    ELSE [fr EXCEPT !.sem = fr.sem + 1,
                    !.tasks[i] = [pc |-> "done",
                                  result |-> <<SuccessResult(i, fr.prompts[i].category,
                                                             outcome.passed, <<>>, <<>>)>>]]

\* A plausible slip: the comparison block placed after the `async with`,
\* so that the slot is given back before the baseline call.
AfterPrimaryReleasing(fr, i, outcome) ==
    IF outcome.kind = "exc"
    THEN [fr EXCEPT !.sem = fr.sem + 1,
                    !.tasks[i] = [pc |-> "done",
                                  result |-> <<FailedResult(i, outcome.text)>>]]
    ELSE IF fr.compare
    THEN [fr EXCEPT !.sem = fr.sem + 1,
                    !.tasks[i] = [pc |-> "baseline",
                                  result |-> <<SuccessResult(i, fr.prompts[i].category,
                                                             outcome.passed, <<>>, <<>>)>>]]
    ELSE [fr EXCEPT !.sem = fr.sem + 1,
                    !.tasks[i] = [pc |-> "done",
                                  result |-> <<SuccessResult(i, fr.prompts[i].category,
                                                             outcome.passed, <<>>, <<>>)>>]]

\* The frame after task i's primary call has returned or raised: the
\* except branch and the plain success return leave the `async with` and
\* give the slot back; with comparison on the task goes on to its baseline
\* call inside the `async with`, keeping the slot.
AfterPrimary(fr, i, outcome) ==
    IF outcome.kind = "exc"
    THEN [fr EXCEPT !.sem = fr.sem + 1,
                    !.tasks[i] = [pc |-> "done",
                                  result |-> <<FailedResult(i, outcome.text)>>]]
    ELSE IF fr.compare
    THEN [fr EXCEPT !.tasks[i] = [pc |-> "baseline",
                                  result |-> <<SuccessResult(i, fr.prompts[i].category,
                                                             outcome.passed, <<>>, <<>>)>>]]
    ELSE [fr EXCEPT !.sem = fr.sem + 1,
                    !.tasks[i] = [pc |-> "done",
                                  result |-> <<SuccessResult(i, fr.prompts[i].category,
                                                             outcome.passed, <<>>, <<>>)>>]]

\* The primary call returns or raises (harness.py 109-147, 188-205).
TaskPrimaryReturns(id, i, outcome) ==
    /\ id \in DOMAIN frames
    /\ i \in DOMAIN frames[id].tasks
    /\ LET fr == frames[id]
       IN  /\ fr.tasks[i].pc = "primary"
           /\ frames' = [frames EXCEPT ![id] = Settle(AfterPrimary(fr, i, outcome))]
    /\ UNCHANGED <<fnVars, runs, nextId, benchVars, gwVars>>

\* A plausible slip: the baseline block reuses the names of the primary
\* one, so that its verdict replaces the primary verdict.
WithBaselineShadowing(result, outcome) ==
    IF outcome.kind = "exc"
    THEN [result EXCEPT !.baseline_response = <<BaselineSentinel>>]
    ELSE [result EXCEPT !.passed = outcome.passed,
                        !.baseline_response = <<"text">>,
                        !.baseline_passed = <<outcome.passed>>]

\* The comparison block of execute_prompt (harness.py 149-167) and the
\* HarnessResult built after it: the block assigns baseline_response and
\* baseline_passed only, and any exception in it leaves the sentinel.
WithBaseline(result, outcome) ==
    IF outcome.kind = "exc"
    THEN [result EXCEPT !.baseline_response = <<BaselineSentinel>>]
    ELSE [result EXCEPT !.baseline_response = <<"text">>,
                        !.baseline_passed = <<outcome.passed>>]

\* The baseline call returns or raises (harness.py 152-186).
TaskBaselineReturns(id, i, outcome) ==
    /\ id \in DOMAIN frames
    /\ i \in DOMAIN frames[id].tasks
    /\ LET fr == frames[id]
       IN  /\ fr.tasks[i].pc = "baseline"
           /\ frames' = [frames EXCEPT ![id] = Settle(
                  [fr EXCEPT !.sem = fr.sem + 1,
                             !.tasks[i].pc = "done",
                             !.tasks[i].result =
                                 IF fr.pc # "awaiting" THEN <<>>
                                 ELSE <<WithBaseline(fr.tasks[i].result[1], outcome)>>])]
    /\ UNCHANGED <<fnVars, runs, nextId, benchVars, gwVars>>

(***************************************************************************)
(* The data-engine driver: start_harness_run and _execute_run.             *)
(***************************************************************************)
\* A plausible slip: the endpoint stores the record as already running.
HarnessRunRecordRunning == NewRunRecord("running")
HarnessRunRecord == NewRunRecord("pending")

\* POST /harness/run with an existing promptset (api.py 243-264).
StartHarnessRun(concurrency, maxPrompts) ==
    /\ runs' = runs @@ ((nextId + 1) :> HarnessRunRecord)
    /\ frames' = frames @@ ((nextId + 1) :> NewFrame("api", concurrency, maxPrompts, FALSE))
    /\ nextId' = nextId + 1
    /\ UNCHANGED <<fnVars, benchVars, gwVars>>

\* `_runs[run_id]["status"] = "running"` (api.py 157).
MarkRunning(rec) == [rec EXCEPT !.status = "running"]

\* _execute_run from the load to its first suspension (api.py 158-179).
\* `loaded` is <<>> when reading the promptset raises, else <<prompts>>.
\* gather() of no task is already resolved, so an empty promptset is
\* summarised in the same step.
LoadAndLaunch(rec, fr, loaded) ==
    LET used == [fr EXCEPT !.max_prompts = 0]   \* the argument is not read again
    IN  IF loaded = <<>>
        THEN [rec |-> FailedUpdate(rec, LoadErrorText),
              frame |-> [used EXCEPT !.pc = "returned"]]
        ELSE LET prompts == Truncate(loaded[1], fr.max_prompts)
                 counted == [rec EXCEPT !.total = Len(prompts)]
             IN  IF fr.concurrency < 0
                 THEN [rec |-> FailedUpdate(counted, SemaphoreErrorText),
                       frame |-> [used EXCEPT !.pc = "returned"]]
                 ELSE IF prompts = <<>>
                 THEN [rec |-> CompletedUpdate(counted, <<>>),
                       frame |-> [used EXCEPT !.pc = "returned",
                                              !.sem = SemaphoreInit(fr.concurrency)]]
                 ELSE [rec |-> counted, frame |-> StartPromptset(used, prompts)]

\* _execute_run after the join barrier (api.py 181-216).
FinishRun(rec, fr) ==
    IF GatherRaised(fr) THEN FailedUpdate(rec, KeyErrorText)
    ELSE CompletedUpdate(rec, GatherResults(fr))

\* A plausible slip: the start marks every pending record of the store as
\* running, not only its own.
ExecuteRunBeginMarkingAll(id) ==
    /\ id \in DOMAIN frames
    /\ frames[id].origin # "cli"
    /\ frames[id].pc = "scheduled"
    /\ runs' = [r \in DOMAIN runs |->
                  IF runs[r].status = "pending" THEN MarkRunning(runs[r]) ELSE runs[r]]
    /\ frames' = [frames EXCEPT ![id].pc = "started"]
    /\ UNCHANGED <<fnVars, nextId, benchVars, gwVars>>

\* _execute_run starts, as a background task or called by a benchmark
\* (api.py 157).
ExecuteRunBegin(id) ==
    /\ id \in DOMAIN frames
    /\ frames[id].origin # "cli"
    /\ frames[id].pc = "scheduled"
    /\ runs' = [runs EXCEPT ![id] = MarkRunning(runs[id])]
    /\ frames' = [frames EXCEPT ![id].pc = "started"]
    /\ UNCHANGED <<fnVars, nextId, benchVars, gwVars>>

\* _execute_run loads the promptset and launches the harness.
ExecuteRunLoad(id, loaded) ==
    /\ id \in DOMAIN frames
    /\ frames[id].origin # "cli"
    /\ frames[id].pc = "started"
    /\ LET b == LoadAndLaunch(runs[id], frames[id], loaded)
       IN  /\ runs' = [runs EXCEPT ![id] = b.rec]
           /\ frames' = [frames EXCEPT ![id] = b.frame]
    /\ UNCHANGED <<fnVars, nextId, benchVars, gwVars>>

\* The background task resumes from `await harness.run_promptset(...)`.
ExecuteRunResume(id) ==
    /\ id \in DOMAIN frames
    /\ frames[id].origin # "cli"
    /\ frames[id].pc = "awaiting"
    /\ GatherRaised(frames[id]) \/ GatherDone(frames[id])
    /\ runs' = [runs EXCEPT ![id] = FinishRun(runs[id], frames[id])]
    /\ frames' = [frames EXCEPT ![id] = Settle([frames[id] EXCEPT !.pc = "returned"])]
    /\ UNCHANGED <<fnVars, nextId, benchVars, gwVars>>

(***************************************************************************)
(* Benchmarks: start_benchmark and _execute_benchmark.                     *)
(***************************************************************************)
\* BENCHMARK_MAP in iteration order.
BenchmarkTeams == <<"quant", "finetune", "eval">>

BenchmarkRunRecord == NewRunRecord("running")

\* The record start_benchmark stores (api.py 357-365).
NewBenchmarkRecord ==
    [status |-> "pending", team_runs |-> <<>>,
     team_status |-> [t \in {BenchmarkTeams[k] : k \in DOMAIN BenchmarkTeams} |-> "pending"],
     summary |-> <<>>, completed |-> FALSE]

\* The per-team summary of _execute_benchmark (api.py 319-331).
BenchmarkSummary(teamRuns, store) ==
    [t \in DOMAIN teamRuns |->
        [total |-> store[teamRuns[t]].total,
         passed |-> store[teamRuns[t]].passed,
         failed |-> store[teamRuns[t]].failed,
         pass_rate |-> store[teamRuns[t]].pass_rate]]

\* `all(s == "failed" for s in team_status.values())`
AllFailed(teamStatus) == \A t \in DOMAIN teamStatus : teamStatus[t] = "failed"

\* POST /harness/benchmark with at least one benchmark promptset on disk.
StartBenchmark(concurrency) ==
    /\ LET b == Cardinality(DOMAIN benchmarks) + 1
       IN  /\ benchmarks' = benchmarks @@ (b :> NewBenchmarkRecord)
           /\ bframes' = bframes @@ (b :> [pc |-> "scheduled", concurrency |-> concurrency,
                                           idx |-> 1, run |-> 0])
    /\ UNCHANGED <<fnVars, storeVars, gwVars>>

\* `_benchmarks[benchmark_id]["status"] = "running"` (api.py 286).
BenchmarkBegin(b) ==
    /\ b \in DOMAIN bframes
    /\ bframes[b].pc = "scheduled"
    /\ benchmarks' = [benchmarks EXCEPT ![b].status = "running"]
    /\ bframes' = [bframes EXCEPT ![b].pc = "loop"]
    /\ UNCHANGED <<fnVars, storeVars, gwVars>>

\* One iteration of the team loop up to the call of _execute_run
\* (api.py 288-314); `exists` says whether the team's promptset is on disk.
BenchmarkNextTeam(b, exists) ==
    /\ b \in DOMAIN bframes
    /\ bframes[b].pc = "loop"
    /\ bframes[b].idx <= Len(BenchmarkTeams)
    /\ LET team == BenchmarkTeams[bframes[b].idx]
           id == nextId + 1
       IN  IF ~exists
           THEN /\ benchmarks' = [benchmarks EXCEPT ![b].team_status[team] = "skipped"]
                /\ bframes' = [bframes EXCEPT ![b].idx = @ + 1]
                /\ UNCHANGED <<fnVars, storeVars, gwVars>>
           ELSE /\ benchmarks' = [benchmarks EXCEPT
                                    ![b].team_runs = (team :> id) @@ @,
                                    ![b].team_status[team] = "running"]
                /\ runs' = runs @@ (id :> BenchmarkRunRecord)
                /\ frames' = frames @@ (id :> NewFrame("bench", bframes[b].concurrency, 0, FALSE))
                /\ nextId' = id
                /\ bframes' = [bframes EXCEPT ![b].pc = "awaiting", ![b].run = id]
                /\ UNCHANGED <<fnVars, gwVars>>

\* _execute_run has returned to the benchmark (api.py 316).
BenchmarkAfterRun(b) ==
    /\ b \in DOMAIN bframes
    /\ bframes[b].pc = "awaiting"
    /\ frames[bframes[b].run].pc = "returned"
    /\ benchmarks' = [benchmarks EXCEPT
                        ![b].team_status[BenchmarkTeams[bframes[b].idx]] =
                            runs[bframes[b].run].status]
    /\ bframes' = [bframes EXCEPT ![b].pc = "loop", ![b].idx = @ + 1, ![b].run = 0]
    /\ UNCHANGED <<fnVars, storeVars, gwVars>>

\* The aggregate after the team loop (api.py 318-338).
BenchmarkFinish(b) ==
    /\ b \in DOMAIN bframes
    /\ bframes[b].pc = "loop"
    /\ bframes[b].idx > Len(BenchmarkTeams)
    /\ benchmarks' = [benchmarks EXCEPT
                        ![b].status = IF AllFailed(benchmarks[b].team_status)
                                      THEN "failed" ELSE "completed",
                        ![b].completed = TRUE,
                        ![b].summary = BenchmarkSummary(benchmarks[b].team_runs, runs)]
    /\ bframes' = [bframes EXCEPT ![b].pc = "returned"]
    /\ UNCHANGED <<fnVars, storeVars, gwVars>>

(***************************************************************************)
(* The command-line entry point of the harness (harness.py main).          *)
(***************************************************************************)
\* What main() prints once every task has returned.
CliSummary(results, compare) ==
    [total |-> Len(results),
     passed |-> PassedCount(results),
     failed |-> FailedCount(results),
     pass_rate |-> PassRate(PassedCount(results), Len(results)),
     category_breakdown |-> CategoryBreakdown(results, <<>>),
     baseline_passed |-> IF compare
                         THEN <<Cardinality({i \in DOMAIN results :
                                               results[i].baseline_passed = <<TRUE>>})>>
                         ELSE <<>>]

\* main() up to `await harness.run_promptset(...)` (harness.py 245-274).
\* Nothing catches an unreadable promptset or a negative concurrency, and
\* with no prompt the pass-rate line divides by zero (harness.py 286).
CliMain(concurrency, compare, loaded) ==
    /\ LET fr == NewFrame("cli", concurrency, 0, compare)
       IN  frames' = frames @@ ((nextId + 1) :>
               IF loaded = <<>> \/ concurrency < 0 \/ loaded[1] = <<>>
               THEN [fr EXCEPT !.pc = "crashed"]
               ELSE StartPromptset(fr, loaded[1]))
    /\ nextId' = nextId + 1
    /\ UNCHANGED <<fnVars, runs, benchVars, gwVars>>

\* main() after the join barrier (harness.py 276-316).
CliResume(id) ==
    /\ id \in DOMAIN frames
    /\ frames[id].origin = "cli"
    /\ frames[id].pc = "awaiting"
    /\ GatherRaised(frames[id]) \/ GatherDone(frames[id])
    /\ frames' = [frames EXCEPT ![id] = Settle(
           IF GatherRaised(frames[id])
           THEN [frames[id] EXCEPT !.pc = "crashed"]
           ELSE [frames[id] EXCEPT !.pc = "returned",
                                   !.output = <<CliSummary(GatherResults(frames[id]),
                                                           frames[id].compare)>>])]
    /\ UNCHANGED <<fnVars, runs, nextId, benchVars, gwVars>>

(***************************************************************************)
(* The gateway: Router (routing.py) and the predict handler (main.py).     *)
(***************************************************************************)
TeamNames == {"quant", "eval"}
\* The keys of `ab_variants` are arbitrary JSON strings: an ordinary name,
\* and the empty name, which `if variant:` and `variant or "default"`
\* treat like None.
VariantNames == {"a", ""}

\* `ab_variants`: a dict in insertion order, so an ordered list of
\* (name, weight) with distinct names; <<>> stands for None and for {}.
VariantConfigs ==
    {v \in SeqsUpTo([name : VariantNames, weight : 0 .. MaxWeight], MaxVariants) :
        \A i, j \in DOMAIN v : i # j => v[i].name # v[j].name}

\* The route tables _parse_route_table can build.
RouteTables ==
    UNION {[T -> [ab_variants : VariantConfigs]] : T \in SUBSET TeamNames}

\* `sum(v.get("weight", 0) for v in variants.values())`
RECURSIVE TotalWeight(_)
TotalWeight(variants) ==
    IF variants = <<>> THEN 0 ELSE Head(variants).weight + TotalWeight(Tail(variants))

\* A plausible slip: a strict comparison in the scan.
RECURSIVE ScanVariantsStrict(_, _, _)
ScanVariantsStrict(variants, rand, cumulative) ==
    IF variants = <<>> THEN <<>>
    ELSE LET c == cumulative + Head(variants).weight
         IN  IF rand < c THEN <<Head(variants).name>>
             ELSE ScanVariantsStrict(Tail(variants), rand, c)

\* The scan of select_variant (routing.py 59-63): <<name>> for the first
\* variant whose cumulative weight reaches rand, <<>> when the loop ends
\* without returning.
RECURSIVE ScanVariants(_, _, _)
ScanVariants(variants, rand, cumulative) ==
    IF variants = <<>> THEN <<>>
    ELSE LET c == cumulative + Head(variants).weight
         IN  IF rand <= c THEN <<Head(variants).name>>
             ELSE ScanVariants(Tail(variants), rand, c)

\* A plausible slip: strict comparison and no fallback after the loop.
SelectVariantStrict(table, team, rand) ==
    IF team \notin DOMAIN table \/ table[team].ab_variants = <<>> THEN <<>>
    ELSE IF TotalWeight(table[team].ab_variants) = 0 THEN <<>>
    ELSE ScanVariantsStrict(table[team].ab_variants, rand, 0)

\* A plausible slip: no check of a zero total before the selection.
SelectVariantNoZeroCheck(table, team, rand) ==
    IF team \notin DOMAIN table \/ table[team].ab_variants = <<>> THEN <<>>
    ELSE LET hit == ScanVariants(table[team].ab_variants, rand, 0)
         IN  IF hit # <<>> THEN hit ELSE <<table[team].ab_variants[1].name>>

\* A plausible slip: the draw taken from 0 .. total - 1.
SelectVariantDrawFromZero(table, team, rand) ==
    IF team \notin DOMAIN table \/ table[team].ab_variants = <<>> THEN <<>>
    ELSE IF TotalWeight(table[team].ab_variants) = 0 THEN <<>>
    ELSE LET hit == ScanVariants(table[team].ab_variants, rand - 1, 0)
         IN  IF hit # <<>> THEN hit ELSE <<table[team].ab_variants[1].name>>

\* Router.select_variant with the draw `rand` of random.randint(1, total)
\* (routing.py 40-65): <<>> is None.
SelectVariant(table, team, rand) ==
    IF team \notin DOMAIN table \/ table[team].ab_variants = <<>> THEN <<>>
    ELSE IF TotalWeight(table[team].ab_variants) = 0 THEN <<>>
    ELSE LET hit == ScanVariants(table[team].ab_variants, rand, 0)
         IN  IF hit # <<>> THEN hit ELSE <<table[team].ab_variants[1].name>>

\* The values random.randint(1, total_weight) can return; no draw is made
\* (0 here) when select_variant returns before it.
Draws(table, team) ==
    IF team \in DOMAIN table /\ TotalWeight(table[team].ab_variants) > 0
    THEN 1 .. TotalWeight(table[team].ab_variants)
    ELSE {0}

\* A direct call of Router.select_variant.
RouterSelect(team, rand) ==
    /\ rand \in Draws(routes, team)
    /\ selection' = <<[team |-> team, rand |-> rand,
                       result |-> SelectVariant(routes, team, rand)]>>
    /\ UNCHANGED <<fnVars, storeVars, benchVars, routes, gw>>

\* X-Correlation-ID of the inbound call: absent, empty or given.
InboundIds == {<<>>, <<"">>, <<"cid-1">>}
\* `str(uuid.uuid4())`
GeneratedId == "uuid-1"

\* A plausible slip: the inbound header is ignored.
CorrelationIdAlwaysFresh(inbound) == GeneratedId

\* `correlation_id = x_correlation_id or str(uuid.uuid4())`
CorrelationId(inbound) ==
    IF inbound # <<>> /\ inbound[1] # "" THEN inbound[1] ELSE GeneratedId

\* What the backend call does: answers with a success status and a JSON
\* body, with an error status and a JSON body, with a body that is not
\* JSON; exceeds the timeout; or fails otherwise.
BackendOutcomes == {"ok", "error_status", "not_json", "timeout", "failure"}

GatewayIdle ==
    [pc |-> "idle", team |-> "", inbound |-> <<>>, body_ok |-> TRUE,
     correlation_id |-> "", variant |-> <<>>,
     outbound |-> <<>>, counted |-> <<>>, response |-> <<>>]

\* A plausible slip: the route check made inside the try, so that the
\* refusal is caught and reported as an upstream error.
UnknownTeamResponseCaught(team) ==
    [status |-> 502, error |-> "upstream_error", team |-> <<team>>,
     message |-> TRUE, correlation_id |-> <<>>, headers |-> <<>>]

\* `raise HTTPException(404, detail={"error": "unknown_team", "team": team})`
UnknownTeamResponse(team) ==
    [status |-> 404, error |-> "unknown_team", team |-> <<team>>,
     message |-> FALSE, correlation_id |-> <<>>, headers |-> <<>>]

\* The 504 of `except httpx.TimeoutException` (main.py 163-172).
TimeoutResponse(team, cid) ==
    [status |-> 504, error |-> "upstream_timeout", team |-> <<team>>,
     message |-> FALSE, correlation_id |-> <<cid>>, headers |-> <<>>]

\* The 502 of `except Exception` (main.py 173-183).
UpstreamErrorResponse(team, cid) ==
    [status |-> 502, error |-> "upstream_error", team |-> <<team>>,
     message |-> TRUE, correlation_id |-> <<cid>>, headers |-> <<>>]

\* `variant or "default"`
VariantLabel(variant) == IF variant # <<>> /\ variant[1] # "" THEN variant[1] ELSE "default"

\* The JSONResponse of the success path (main.py 151-161): the backend's
\* body with the tracking headers, whatever status the backend answered.
RelayResponse(team, cid, variant) ==
    [status |-> 200, error |-> "", team |-> <<>>, message |-> FALSE,
     correlation_id |-> <<>>,
     headers |-> <<[correlation_id |-> cid, team |-> team, variant |-> VariantLabel(variant)]>>]

\* The headers of the outbound call (main.py 119-127).
OutboundCall(team, cid, variant) ==
    [team |-> team, correlation_id |-> cid,
     ab_variant |-> IF variant # <<>> /\ variant[1] # "" THEN variant ELSE <<>>]

\* route_predict from its first line to the await of the backend call
\* (main.py 89-143).  The body is read inside the try: a body that is not
\* JSON raises there and is answered as an upstream error, with no call.
HandlePredict(table, team, inbound, bodyOk, rand) ==
    LET cid == CorrelationId(inbound)
        variant == SelectVariant(table, team, rand)
        g == [GatewayIdle EXCEPT !.team = team, !.inbound = inbound, !.body_ok = bodyOk,
                                 !.correlation_id = cid]
    IN  IF team \notin DOMAIN table
        THEN [g EXCEPT !.pc = "responded", !.response = <<UnknownTeamResponse(team)>>]
        ELSE IF ~bodyOk
        THEN [g EXCEPT !.pc = "responded", !.variant = variant,
                       !.counted = <<"error">>,
                       !.response = <<UpstreamErrorResponse(team, cid)>>]
        ELSE [g EXCEPT !.pc = "forwarding", !.variant = variant,
                       !.outbound = <<OutboundCall(team, cid, variant)>>]

\* A plausible slip: a timed-out backend call is sent once more.
OnBackendOutcomeRetrying(g, outcome) ==
    IF outcome = "timeout" /\ Len(g.outbound) < 2
    THEN [g EXCEPT !.outbound = Append(@, g.outbound[1])]
    ELSE [g EXCEPT !.pc = "responded", !.counted = Append(@, "error"),
                   !.response = <<UpstreamErrorResponse(g.team, g.correlation_id)>>]

\* A plausible slip: the handlers in the other order, so that the general
\* one catches the timeout too.
OnBackendOutcomeCatchAll(g, outcome) ==
    IF outcome \in {"timeout", "failure"}
    THEN [g EXCEPT !.pc = "responded", !.counted = Append(@, "error"),
                   !.response = <<UpstreamErrorResponse(g.team, g.correlation_id)>>]
    ELSE IF outcome = "not_json"
    THEN [g EXCEPT !.pc = "responded", !.counted = @ \o <<"success", "error">>,
                   !.response = <<UpstreamErrorResponse(g.team, g.correlation_id)>>]
    ELSE [g EXCEPT !.pc = "responded", !.counted = Append(@, "success"),
                   !.response = <<RelayResponse(g.team, g.correlation_id, g.variant)>>]

\* route_predict from the return of the backend call (main.py 138-183).
\* The request is counted as a success as soon as the call returns; a body
\* that is not JSON then raises in response.json() inside the same try.
OnBackendOutcome(g, outcome) ==
    IF outcome = "timeout"
    THEN [g EXCEPT !.pc = "responded", !.counted = Append(@, "timeout"),
                   !.response = <<TimeoutResponse(g.team, g.correlation_id)>>]
    ELSE IF outcome = "failure"
    THEN [g EXCEPT !.pc = "responded", !.counted = Append(@, "error"),
                   !.response = <<UpstreamErrorResponse(g.team, g.correlation_id)>>]
    ELSE IF outcome = "not_json"
    THEN [g EXCEPT !.pc = "responded", !.counted = @ \o <<"success", "error">>,
                   !.response = <<UpstreamErrorResponse(g.team, g.correlation_id)>>]
    ELSE [g EXCEPT !.pc = "responded", !.counted = Append(@, "success"),
                   !.response = <<RelayResponse(g.team, g.correlation_id, g.variant)>>]

\* An inbound POST /api/{team}/predict arrives.
GatewayReceive(team, inbound, bodyOk, rand) ==
    /\ gw.pc \in {"idle", "responded"}
    /\ rand \in Draws(routes, team)
    /\ gw' = HandlePredict(routes, team, inbound, bodyOk, rand)
    /\ UNCHANGED <<fnVars, storeVars, benchVars, routes, selection>>

\* The backend call returns, times out or fails.
GatewayBackendReturns(outcome) ==
    /\ gw.pc = "forwarding"
    /\ gw' = OnBackendOutcome(gw, outcome)
    /\ UNCHANGED <<fnVars, storeVars, benchVars, routes, selection>>

(***************************************************************************)
(* The response validator (harness.py TestHarness._validate_response).     *)
(* A text is the sequence of its characters.                               *)
(***************************************************************************)
Alphabet == {"a", "A", "1"}
Digits == {"1"}
Texts == SeqsUpTo(Alphabet, MaxTextLen)
\* A required term: empty or one character.
Terms == {<<>>} \cup {<<c>> : c \in Alphabet}

\* The backend's JSON body: each of "output" and "response" is absent
\* (<<>>) or a string (<<text>>).
ResultBodies == [output : {<<>>} \cup {<<t>> : t \in Texts},
                 response : {<<>>} \cup {<<t>> : t \in Texts}]

\* A prompt record as the validator reads it: expected_contains is absent
\* or None (<<>>) or a list of terms; expected_format is absent ("") or a
\* string.
Formats == {"", "json", "text"}
ValidatorPrompts == [expected_contains : {<<>>} \cup {<<l>> : l \in SeqsUpTo(Terms, MaxTerms)},
                     expected_format : Formats]

\* A plausible slip: no case folding.
LowerKeepingCase(text) == text

\* `str.lower()`
Lower(text) == [i \in DOMAIN text |-> IF text[i] = "A" THEN "a" ELSE text[i]]

\* `term in text` for strings.
Contains(text, term) ==
    \E k \in 0 .. (Len(text) - Len(term)) : SubSeq(text, k + 1, k + Len(term)) = term

\* `str(result.get("output") or result.get("response", ""))`
ResponseText(result) ==
    IF result.output # <<>> /\ result.output[1] # <<>> THEN result.output[1]
    ELSE IF result.response # <<>> THEN result.response[1]
    ELSE <<>>

\* `result.get("response", "")`, the argument of json.loads.
JsonArgument(result) ==
    IF result.response # <<>> THEN result.response[1] ELSE <<>>

\* Whether json.loads accepts a text over Alphabet: such a text is a JSON
\* document exactly when it is a number, a non-empty run of digits.
ParsesAsJson(text) == text # <<>> /\ \A i \in DOMAIN text : text[i] \in Digits

\* _validate_response (harness.py 207-226).
ValidateResponse(prompt, result) ==
    LET response_text == Lower(ResponseText(result))
        expected == prompt.expected_contains
    IN  IF /\ expected # <<>> /\ expected[1] # <<>>
           /\ \E i \in DOMAIN expected[1] : ~Contains(response_text, Lower(expected[1][i]))
        THEN FALSE
        ELSE IF prompt.expected_format = "json" /\ ~ParsesAsJson(JsonArgument(result))
        THEN FALSE
        ELSE TRUE

\* A direct call of _validate_response on the drawn prompt and body.
ValidateCall ==
    /\ validated # <<>>
    /\ validated[1].outcome = <<>>
    /\ validated' = <<[validated[1] EXCEPT
                         !.outcome = <<ValidateResponse(validated[1].prompt,
                                                        validated[1].result)>>]>>
    /\ UNCHANGED <<storeVars, benchVars, gwVars, propagated>>

(***************************************************************************)
(* Outbound context propagation (gateway/propagation.py).  A baggage is    *)
(* the set of its (key, value) entries; trace headers are not modelled.    *)
(***************************************************************************)
PolicyKey == "lab.route.policy.id"
BucketKey == "lab.ab.bucket"
ExperimentKey == "lab.experiment.id"
PromptsetKey == "lab.promptset.id"
VariantKey == "lab.model.variant.id"
LabKeys == {PolicyKey, BucketKey, ExperimentKey, PromptsetKey, VariantKey}

\* The baggage of the current context when the function is called: what
\* the instrumented server extracted from the caller's baggage header.
AmbientKeys == {"user.session", ExperimentKey}
AmbientBaggages ==
    {{[key |-> k, value |-> "caller"] : k \in K} : K \in SUBSET AmbientKeys}

\* The arguments: policy_id is a string, each of the others is None (<<>>)
\* or a string, possibly empty.
OptionalArgs == {<<>>, <<"">>, <<"x">>}
PropagationArgs == [policy_id : {"default", "p1"}, ab_bucket : OptionalArgs,
                    experiment_id : OptionalArgs, promptset_id : OptionalArgs,
                    variant_id : OptionalArgs]

\* `baggage.set_baggage(name, value, context=ctx)`: a copy of the baggage
\* of ctx with the entry for name replaced.
SetBaggage(name, value, ctx) ==
    {en \in ctx : en.key # name} \cup {[key |-> name, value |-> value]}

\* `if arg: ctx = baggage.set_baggage(name, arg, context=ctx)`
SetIfGiven(name, arg, ctx) ==
    IF arg # <<>> /\ arg[1] # "" THEN SetBaggage(name, arg[1], ctx) ELSE ctx

\* create_propagation_headers (propagation.py 13-38): the baggage that
\* inject writes into the headers.  The first set_baggage is called without
\* a context and so starts from the current (ambient) one.
CreatePropagationHeaders(ambient, args) ==
    LET c1 == SetBaggage(PolicyKey, args.policy_id, ambient)
        c2 == SetIfGiven(BucketKey, args.ab_bucket, c1)
        c3 == SetIfGiven(ExperimentKey, args.experiment_id, c2)
        c4 == SetIfGiven(PromptsetKey, args.promptset_id, c3)
    IN  SetIfGiven(VariantKey, args.variant_id, c4)

\* A direct call of create_propagation_headers in the drawn context.
PropagateCall ==
    /\ propagated # <<>>
    /\ propagated[1].baggage = <<>>
    /\ propagated' = <<[propagated[1] EXCEPT
                          !.baggage = <<CreatePropagationHeaders(propagated[1].ambient,
                                                                 propagated[1].args)>>]>>
    /\ UNCHANGED <<storeVars, benchVars, gwVars, validated>>

(***************************************************************************)
(* Specification of the harness and its drivers.                           *)
(***************************************************************************)
TaskIds == 1 .. MaxPrompts
Loads == {<<>>} \cup {<<ps>> : ps \in PromptSets}

Init ==
    /\ runs = <<>>
    /\ frames = <<>>
    /\ nextId = 0
    /\ benchmarks = <<>>
    /\ bframes = <<>>
    /\ routes = <<>>
    /\ selection = <<>>
    /\ gw = GatewayIdle
    /\ validated = <<>>
    /\ propagated = <<>>

\* One harness run started through POST /harness/run, over promptsets of
\* up to MaxPrompts records.
Next ==
    \/ \E c \in Concurrencies, m \in MaxPromptsArgs :
          nextId = 0 /\ StartHarnessRun(c, m)
    \/ \E id \in DOMAIN frames : ExecuteRunBegin(id)
    \/ \E id \in DOMAIN frames, l \in Loads : ExecuteRunLoad(id, l)
    \/ \E id \in DOMAIN frames : ExecuteRunResume(id)
    \/ \E id \in DOMAIN frames, i \in TaskIds : TaskAcquire(id, i)
    \/ \E id \in DOMAIN frames, i \in TaskIds, o \in CallOutcomes :
          TaskPrimaryReturns(id, i, o)

Spec == Init /\ [][Next]_vars

\* The scheduling the event loop guarantees: a ready coroutine is resumed,
\* and (the proviso of the termination claim) every outbound call
\* eventually returns or times out.
Progress ==
    /\ WF_vars(\E id \in DOMAIN frames : ExecuteRunBegin(id))
    /\ WF_vars(\E id \in DOMAIN frames, l \in Loads : ExecuteRunLoad(id, l))
    /\ WF_vars(\E id \in DOMAIN frames : ExecuteRunResume(id))
    /\ WF_vars(\E id \in DOMAIN frames, i \in TaskIds : TaskAcquire(id, i))
    /\ WF_vars(\E id \in DOMAIN frames, i \in TaskIds, o \in CallOutcomes :
                  TaskPrimaryReturns(id, i, o))

FairSpec == Init /\ [][Next]_vars /\ Progress

\* One harness run started from the command line (main of harness.py),
\* with or without baseline comparison.
CliNext ==
    \/ \E c \in Concurrencies, b \in BOOLEAN, l \in Loads :
          nextId = 0 /\ CliMain(c, b, l)
    \/ \E id \in DOMAIN frames : CliResume(id)
    \/ \E id \in DOMAIN frames, i \in TaskIds : TaskAcquire(id, i)
    \/ \E id \in DOMAIN frames, i \in TaskIds, o \in CallOutcomes :
          TaskPrimaryReturns(id, i, o)
    \/ \E id \in DOMAIN frames, i \in TaskIds, o \in CallOutcomes :
          TaskBaselineReturns(id, i, o)

CliSpec == Init /\ [][CliNext]_vars

(***************************************************************************)
(* Specification of the shared stores: several runs, started through the   *)
(* API and by a benchmark, executing concurrently on the event loop, over  *)
(* promptsets of up to MaxStorePrompts records.                            *)
(***************************************************************************)
StoreTaskIds == 1 .. MaxStorePrompts
BenchmarkIds == 1 .. MaxBenchmarks
StoreLoads == {<<>>} \cup {<<ps>> : ps \in SeqsUpTo(PromptRecords, MaxStorePrompts)}

StoreNext ==
    \/ \E c \in Concurrencies :
          nextId < MaxStoreRuns /\ StartHarnessRun(c, 0)
    \/ \E id \in DOMAIN frames : ExecuteRunBegin(id)
    \/ \E id \in DOMAIN frames, l \in StoreLoads : ExecuteRunLoad(id, l)
    \/ \E id \in DOMAIN frames : ExecuteRunResume(id)
    \/ \E id \in DOMAIN frames, i \in StoreTaskIds : TaskAcquire(id, i)
    \/ \E id \in DOMAIN frames, i \in StoreTaskIds, o \in CallOutcomes :
          TaskPrimaryReturns(id, i, o)
    \/ \E c \in Concurrencies :
          Cardinality(DOMAIN benchmarks) < MaxBenchmarks /\ StartBenchmark(c)
    \/ \E b \in BenchmarkIds : BenchmarkBegin(b)
    \/ \E b \in BenchmarkIds, e \in BOOLEAN :
          (e => nextId < MaxStoreRuns) /\ BenchmarkNextTeam(b, e)
    \/ \E b \in BenchmarkIds : BenchmarkAfterRun(b)
    \/ \E b \in BenchmarkIds : BenchmarkFinish(b)

StoreSpec == Init /\ [][StoreNext]_vars


(***************************************************************************)
(* Specifications of the gateway: the router alone, and the dispatcher.    *)
(***************************************************************************)
GatewayInit ==
    /\ runs = <<>>
    /\ frames = <<>>
    /\ nextId = 0
    /\ benchmarks = <<>>
    /\ bframes = <<>>
    /\ routes \in RouteTables
    /\ selection = <<>>
    /\ gw = GatewayIdle
    /\ validated = <<>>
    /\ propagated = <<>>

MaxDraw == MaxVariants * MaxWeight

RouterNext == \E t \in TeamNames, r \in 0 .. MaxDraw : RouterSelect(t, r)

RouterSpec == GatewayInit /\ [][RouterNext]_vars

GatewayNext ==
    \/ \E t \in TeamNames, c \in InboundIds, b \in BOOLEAN, r \in 0 .. MaxDraw :
          GatewayReceive(t, c, b, r)
    \/ \E o \in BackendOutcomes : GatewayBackendReturns(o)

GatewaySpec == GatewayInit /\ [][GatewayNext]_vars

(***************************************************************************)
(* Specification of the validator: one call on every prompt and body.      *)
(***************************************************************************)
ValidatorInit ==
    /\ runs = <<>>
    /\ frames = <<>>
    /\ nextId = 0
    /\ benchmarks = <<>>
    /\ bframes = <<>>
    /\ routes = <<>>
    /\ selection = <<>>
    /\ gw = GatewayIdle
    /\ validated \in {<<[prompt |-> p, result |-> r, outcome |-> <<>>]>> :
                        p \in ValidatorPrompts, r \in ResultBodies}
    /\ propagated = <<>>

ValidatorNext == ValidateCall

ValidatorSpec == ValidatorInit /\ [][ValidatorNext]_vars

(***************************************************************************)
(* Specification of the propagation: one call in every ambient context.    *)
(***************************************************************************)
PropagationInit ==
    /\ runs = <<>>
    /\ frames = <<>>
    /\ nextId = 0
    /\ benchmarks = <<>>
    /\ bframes = <<>>
    /\ routes = <<>>
    /\ selection = <<>>
    /\ gw = GatewayIdle
    /\ validated = <<>>
    /\ propagated \in {<<[ambient |-> a, args |-> g, baggage |-> <<>>]>> :
                         a \in AmbientBaggages, g \in PropagationArgs}

PropagationNext == PropagateCall

PropagationSpec == PropagationInit /\ [][PropagationNext]_vars

(***************************************************************************)
(* Specification of the aggregation: one run of up to MaxAggregated        *)
(* prompts at its join barrier, every task returned, the first `failing`   *)
(* of them with an error; _execute_run resumes from there.                 *)
(***************************************************************************)
AtBarrier(n, failing) ==
    LET prompts == [i \in 1 .. n |-> [category |-> NoCategory, hasId |-> TRUE]]
        fr == StartPromptset(NewFrame("api", 1, 0, FALSE), prompts)
    IN  [fr EXCEPT !.tasks = [i \in 1 .. n |->
            [pc |-> "done",
             result |-> <<IF i <= failing
                          THEN FailedResult(i, "ConnectError")
                          ELSE SuccessResult(i, NoCategory, TRUE, <<>>, <<>>)>>]]]

AggregationInit ==
    /\ \E n \in 1 .. MaxAggregated : \E failing \in 0 .. n :
          /\ runs = <<[HarnessRunRecord EXCEPT !.status = "running", !.total = n]>>
          /\ frames = <<AtBarrier(n, failing)>>
    /\ nextId = 1
    /\ benchmarks = <<>>
    /\ bframes = <<>>
    /\ routes = <<>>
    /\ selection = <<>>
    /\ gw = GatewayIdle
    /\ validated = <<>>
    /\ propagated = <<>>

AggregationNext == \E id \in DOMAIN frames : ExecuteRunResume(id)

AggregationSpec == AggregationInit /\ [][AggregationNext]_vars

(***************************************************************************)
(* Properties of the harness and its drivers.                              *)
(***************************************************************************)
Terminal == {"completed", "failed"}
PrimaryInFlight(fr) == Cardinality({i \in DOMAIN fr.tasks : fr.tasks[i].pc = "primary"})
WellFormed(prompts) == \A i \in DOMAIN prompts : prompts[i].hasId

\* C1: while a harness with concurrency N runs, at most N primary prompt
\* calls are in flight, whatever the number of prompts and the order in
\* which calls complete.
C1_PrimaryCallsBounded ==
    \A id \in DOMAIN frames :
        frames[id].tasks # <<>> => PrimaryInFlight(frames[id]) <= frames[id].concurrency

\* C1 witness: the pool of size 2 is full and a third prompt waits.
C1_PoolFull ==
    \E id \in DOMAIN frames :
        /\ frames[id].concurrency = 2
        /\ PrimaryInFlight(frames[id]) = 2
        /\ \E i \in DOMAIN frames[id].tasks : frames[id].tasks[i].pc = "waiting"

\* C2: an exception of a prompt's call becomes that prompt's own result,
\* passed = false with the exception text as error, and the task ends
\* normally; a task is only ever left by the exception of a malformed
\* record; and a run over well-formed records whose harness was built
\* returns from the join barrier as completed, with one result per prompt.
C2_CallFailureContained ==
    [][\A id \in DOMAIN frames :
         /\ \A i \in DOMAIN frames[id].tasks, o \in CallOutcomes :
               (o.kind = "exc" /\ frames[id].pc = "awaiting" /\ TaskPrimaryReturns(id, i, o))
               => /\ frames'[id].tasks[i].pc = "done"
                  /\ frames'[id].tasks[i].result # <<>>
                  /\ ~frames'[id].tasks[i].result[1].passed
                  /\ frames'[id].tasks[i].result[1].error = <<o.text>>
                  /\ frames'[id].tasks[i].result[1].prompt_id = i
         /\ \A i \in DOMAIN frames'[id].tasks :
               frames'[id].tasks[i].pc = "raised" => ~frames'[id].prompts[i].hasId
         /\ (ExecuteRunResume(id) /\ WellFormed(frames[id].prompts))
               => /\ runs'[id].status = "completed"
                  /\ runs'[id].total = Len(frames[id].prompts)
                  /\ runs'[id].passed + runs'[id].failed = Len(frames[id].prompts)
                  /\ runs'[id].passed =
                        Cardinality({i \in DOMAIN frames[id].tasks :
                                       frames[id].tasks[i].result[1].error = <<>>
                                       /\ frames[id].tasks[i].result[1].passed})
      ]_vars

\* C2 witness: a run completed although one of its calls raised.
C2_CompletedDespiteError ==
    \E id \in DOMAIN runs :
        /\ runs[id].status = "completed"
        /\ runs[id].total = 3
        /\ runs[id].passed = 2
        /\ runs[id].failed = 1
        /\ Len(runs[id].errors) = 1

\* A status move the state machine pending -> running -> {completed, failed}
\* allows (staying put included).
LegalMove(a, b) ==
    \/ a = b
    \/ a = "pending" /\ b = "running"
    \/ a = "running" /\ b \in Terminal

\* C3: every run record is created as pending, its status only moves
\* pending -> running -> {completed, failed}, and a terminal record never
\* changes again; for runs of the harness endpoint and of a benchmark.
C3_CreatedPendingThenForward ==
    [][\A id \in DOMAIN runs' :
         IF id \notin DOMAIN runs
         THEN runs'[id].status = "pending"
         ELSE /\ LegalMove(runs[id].status, runs'[id].status)
              /\ runs[id].status \in Terminal => runs'[id] = runs[id]
      ]_vars

\* C3 as amended: a run of the harness endpoint is created as pending and a
\* run of a benchmark is created as running; from there the status only
\* moves pending -> running -> {completed, failed}, and a terminal record
\* never changes again.
C3_StatusOnlyMovesForward ==
    [][/\ DOMAIN runs \subseteq DOMAIN runs'
       /\ \A id \in DOMAIN runs' :
            IF id \notin DOMAIN runs
            THEN runs'[id].status = (IF frames'[id].origin = "bench" THEN "running" ELSE "pending")
            ELSE /\ LegalMove(runs[id].status, runs'[id].status)
                 /\ runs[id].status \in Terminal => runs'[id] = runs[id]
      ]_vars

\* C3 witness: a harness run and a benchmark run have both ended, one
\* completed and one failed.
C3_BothKindsEnded ==
    \E a, b \in DOMAIN runs :
        /\ frames[a].origin = "api" /\ runs[a].status = "completed"
        /\ frames[b].origin = "bench" /\ runs[b].status = "failed"

\* C4: once a run is terminal, passed + failed = total.
C4_TerminalCountsAddUp ==
    \A id \in DOMAIN runs :
        runs[id].status \in Terminal => runs[id].passed + runs[id].failed = runs[id].total

\* C5: a completed run's pass_rate is passed/total*100 to the nearest tenth
\* when total > 0 and 0 when total = 0.
C5_PassRateRounded ==
    \A id \in DOMAIN runs :
        runs[id].status = "completed" =>
            LET r == runs[id]
                diff == r.pass_rate * r.total - r.passed * 1000
            IN  IF r.total > 0
                THEN 2 * diff <= r.total /\ 2 * diff >= 0 - r.total
                ELSE r.pass_rate = 0

\* C5 witness: 2 of 3 passed, reported as 66.7.
C5_TwoThirds ==
    \E id \in DOMAIN runs :
        /\ runs[id].status = "completed"
        /\ runs[id].total = 3
        /\ runs[id].passed = 2
        /\ runs[id].pass_rate = 667

\* C6: every started run eventually reaches a terminal status.
C6_EveryRunTerminates ==
    (runs # <<>>) ~> (\A id \in DOMAIN runs : runs[id].status \in Terminal)

(***************************************************************************)
(* Properties of the gateway.                                              *)
(***************************************************************************)
VariantSet(table, team) ==
    {table[team].ab_variants[i].name : i \in DOMAIN table[team].ab_variants}

\* C7: for a team whose variant weights sum to W > 0, select_variant
\* returns a name of that team's configured variants, never None, for
\* every draw.
C7_SelectsConfiguredVariant ==
    \A i \in DOMAIN selection :
        LET sel == selection[i]
        IN  (sel.team \in DOMAIN routes /\ TotalWeight(routes[sel.team].ab_variants) > 0)
            => /\ sel.result # <<>>
               /\ sel.result[1] \in VariantSet(routes, sel.team)

\* C7 witness: the largest draw of a two-variant team selects the second.
C7_LastDrawSelected ==
    \E i \in DOMAIN selection :
        LET sel == selection[i]
        IN  /\ sel.team \in DOMAIN routes
            /\ Len(routes[sel.team].ab_variants) = 2
            /\ routes[sel.team].ab_variants[2].weight > 0
            /\ sel.rand = TotalWeight(routes[sel.team].ab_variants)
            /\ sel.result = <<routes[sel.team].ab_variants[2].name>>

\* C8: select_variant returns None for a team that is not in the route
\* table, that has no configured variants, or whose weights sum to 0.
C8_NoneWithoutWeights ==
    \A i \in DOMAIN selection :
        LET sel == selection[i]
        IN  (\/ sel.team \notin DOMAIN routes
             \/ routes[sel.team].ab_variants = <<>>
             \/ \A k \in DOMAIN routes[sel.team].ab_variants :
                   routes[sel.team].ab_variants[k].weight = 0)
            => sel.result = <<>>

\* C8 witness: a team with configured variants, all of weight 0, got None.
C8_ZeroWeightsNone ==
    \E i \in DOMAIN selection :
        LET sel == selection[i]
        IN  /\ sel.team \in DOMAIN routes
            /\ Len(routes[sel.team].ab_variants) = 2
            /\ TotalWeight(routes[sel.team].ab_variants) = 0
            /\ sel.result = <<>>

\* C9: every inbound predict call causes exactly one outbound backend
\* call: none completes with more, and none completes without one.
C9_ExactlyOneOutbound ==
    /\ Len(gw.outbound) <= 1
    /\ gw.pc = "responded" => Len(gw.outbound) = 1

\* C9 as amended: an inbound predict call causes at most one outbound call
\* (no fan-out, no retry); a call to a known team whose body is JSON has
\* caused exactly one when it is answered, and a call that is refused
\* before the forward (unknown team, unreadable body) has caused none.
C9_AtMostOneOutbound ==
    /\ Len(gw.outbound) <= 1
    /\ gw.pc = "forwarding" => Len(gw.outbound) = 1
    /\ gw.pc = "responded" =>
          Len(gw.outbound) = (IF gw.team \in DOMAIN routes /\ gw.body_ok THEN 1 ELSE 0)
    /\ \A k \in DOMAIN gw.outbound :
          /\ gw.outbound[k].team = gw.team
          /\ gw.team \in DOMAIN routes

\* C9 witness: a timed-out call was answered after its single outbound call.
C9_TimeoutAfterOneCall ==
    /\ gw.pc = "responded"
    /\ gw.response[1].error = "upstream_timeout"
    /\ Len(gw.outbound) = 1

\* C10: every error response of the dispatcher (unknown team, upstream
\* timeout, upstream error) is a structured body that carries the
\* request's correlation id.
C10_ErrorsCarryCorrelationId ==
    (gw.pc = "responded" /\ gw.response[1].error # "")
        => /\ gw.response[1].team = <<gw.team>>
           /\ gw.response[1].correlation_id = <<gw.correlation_id>>

\* C11: a call for a team that is absent from the route table is answered
\* with the unknown-team 404, whatever its body and headers; no variant is
\* selected, nothing is forwarded, and the route table is unchanged.
C11_UnknownTeamNotFound ==
    [][\A t \in TeamNames, c \in InboundIds, b \in BOOLEAN, r \in 0 .. MaxDraw :
         (t \notin DOMAIN routes /\ GatewayReceive(t, c, b, r))
         => /\ gw'.pc = "responded"
            /\ gw'.response[1].status = 404
            /\ gw'.response[1].error = "unknown_team"
            /\ gw'.response[1].team = <<t>>
            /\ gw'.variant = <<>>
            /\ gw'.outbound = <<>>
            /\ routes' = routes
      ]_vars

\* C11 witness: a call with an unreadable body for a team without a route
\* was refused as unknown team, while another team has weighted variants.
C11_RefusedUnknownTeam ==
    /\ gw.pc = "responded"
    /\ gw.team \notin DOMAIN routes
    /\ ~gw.body_ok
    /\ gw.response[1].error = "unknown_team"
    /\ \E t \in DOMAIN routes : TotalWeight(routes[t].ab_variants) > 0

\* C12: a backend call that exceeds the timeout is answered with the
\* upstream-timeout error (team, correlation id) and is not attempted
\* again; a backend call that fails otherwise is answered with the
\* upstream-error (team, message, correlation id); neither is ever
\* reported as the other.
C12_TimeoutAndErrorDistinct ==
    [][\A o \in BackendOutcomes :
         GatewayBackendReturns(o)
         => /\ gw'.pc = "responded"
            /\ gw'.outbound = gw.outbound
            /\ Len(gw'.outbound) = 1
            /\ (o = "timeout") =>
                  /\ gw'.response[1].status = 504
                  /\ gw'.response[1].error = "upstream_timeout"
                  /\ gw'.response[1].team = <<gw.team>>
                  /\ gw'.response[1].correlation_id = <<gw.correlation_id>>
            /\ (o \in {"failure", "not_json"}) =>
                  /\ gw'.response[1].status = 502
                  /\ gw'.response[1].error = "upstream_error"
                  /\ gw'.response[1].team = <<gw.team>>
                  /\ gw'.response[1].message
                  /\ gw'.response[1].correlation_id = <<gw.correlation_id>>
            /\ (gw'.response[1].error = "upstream_timeout") <=> (o = "timeout")
            /\ (gw'.response[1].error = "upstream_error") <=> (o \in {"failure", "not_json"})
      ]_vars

\* C12 witness: a backend call that failed without timing out was answered
\* with the upstream-error after its single attempt.
C12_FailureAfterOneCall ==
    /\ gw.pc = "responded"
    /\ gw.response[1].error = "upstream_error"
    /\ gw.response[1].correlation_id = <<"cid-1">>
    /\ Len(gw.outbound) = 1
    /\ gw.counted = <<"error">>

TextOfBody(result) ==
    IF result.output \notin {<<>>, << <<>> >>} THEN result.output[1]
    ELSE IF result.response # <<>> THEN result.response[1] ELSE <<>>

\* Every term of the prompt's expected_contains occurs in the body's text,
\* letter case ignored.
AllTermsOccur(prompt, result) ==
    prompt.expected_contains # <<>> =>
        \A i \in DOMAIN prompt.expected_contains[1] :
            \E k \in 0 .. Len(TextOfBody(result)) :
                LET term == prompt.expected_contains[1][i]
                    text == TextOfBody(result)
                IN  /\ k + Len(term) <= Len(text)
                    /\ \A j \in 1 .. Len(term) :
                          \/ text[k + j] = term[j]
                          \/ {text[k + j], term[j]} = {"a", "A"}

\* C14: for a prompt whose expected_format is not "json", validate returns
\* true exactly when every term of expected_contains occurs in the response
\* text, letter case ignored; with expected_contains absent or empty it
\* returns true for every body.
C14_TrueIffAllTermsOccur ==
    \A i \in DOMAIN validated :
        LET v == validated[i]
        IN  (v.outcome # <<>> /\ v.prompt.expected_format # "json")
            => /\ v.outcome[1] <=> AllTermsOccur(v.prompt, v.result)
               /\ v.prompt.expected_contains \in {<<>>, << <<>> >>} => v.outcome[1]

\* C14 witness: the term "A" was found in the response field "1a" of a
\* body whose output field is empty.
C14_FoundIgnoringCase ==
    \E i \in DOMAIN validated :
        /\ validated[i].prompt.expected_format = "text"
        /\ validated[i].prompt.expected_contains = << << <<"A">> >> >>
        /\ validated[i].result.output = << <<>> >>
        /\ validated[i].result.response = << <<"1", "a">> >>
        /\ validated[i].outcome = <<TRUE>>

\* C15: for a prompt with expected_format "json", validate returns false
\* whenever the response text (the output field, falling back to the
\* response field) does not parse as JSON, and true when it parses and
\* every required term occurs.
C15_JsonFormatChecksResponseText ==
    \A i \in DOMAIN validated :
        LET v == validated[i]
        IN  (v.outcome # <<>> /\ v.prompt.expected_format = "json")
            => /\ ~ParsesAsJson(TextOfBody(v.result)) => ~v.outcome[1]
               /\ (ParsesAsJson(TextOfBody(v.result)) /\ AllTermsOccur(v.prompt, v.result))
                     => v.outcome[1]

(***************************************************************************)
(* Properties of the propagation.                                          *)
(***************************************************************************)
KeysOf(bag) == {en.key : en \in bag}

\* C16: the baggage of the built headers has only keys among the five
\* enumerated ones, whatever baggage the ambient context carries; the
\* policy id key is always there and each optional key is there exactly
\* when its argument was given.
C16_BaggageOnlyEnumeratedKeys ==
    \A i \in DOMAIN propagated :
        LET c == propagated[i]
        IN  c.baggage # <<>> =>
               /\ KeysOf(c.baggage[1]) \subseteq LabKeys
               /\ PolicyKey \in KeysOf(c.baggage[1])
               /\ BucketKey \in KeysOf(c.baggage[1]) <=> c.args.ab_bucket # <<>>
               /\ ExperimentKey \in KeysOf(c.baggage[1]) <=> c.args.experiment_id # <<>>
               /\ PromptsetKey \in KeysOf(c.baggage[1]) <=> c.args.promptset_id # <<>>
               /\ VariantKey \in KeysOf(c.baggage[1]) <=> c.args.variant_id # <<>>

(***************************************************************************)
(* Properties of the baseline comparison and of the run record.            *)
(***************************************************************************)
\* The fields of a HarnessResult that describe the primary call.
PrimaryFields(r) == <<r.prompt_id, r.passed, r.error, r.category>>

\* C17: the primary fields of a task's result are those the primary call
\* decided, with comparison on or off; the baseline call, whatever it
\* does, changes none of them; when it fails, baseline_response is the
\* sentinel, baseline_passed stays unset and the task still returns.
C17_BaselineLeavesPrimaryOutcome ==
    [][\A id \in DOMAIN frames : \A i \in DOMAIN frames[id].tasks, o \in CallOutcomes :
         /\ (o.kind = "ok" /\ frames[id].pc = "awaiting" /\ TaskPrimaryReturns(id, i, o))
               => /\ PrimaryFields(frames'[id].tasks[i].result[1])
                        = <<i, o.passed, <<>>, frames[id].prompts[i].category>>
                  /\ frames'[id].tasks[i].result[1].baseline_response = <<>>
                  /\ frames'[id].tasks[i].result[1].baseline_passed = <<>>
                  /\ frames'[id].tasks[i].pc = (IF frames[id].compare THEN "baseline" ELSE "done")
         /\ (frames[id].pc = "awaiting" /\ TaskBaselineReturns(id, i, o))
               => /\ frames'[id].tasks[i].pc = "done"
                  /\ PrimaryFields(frames'[id].tasks[i].result[1])
                        = PrimaryFields(frames[id].tasks[i].result[1])
                  /\ o.kind = "exc" =>
                        /\ frames'[id].tasks[i].result[1].baseline_response = <<"[baseline error]">>
                        /\ frames'[id].tasks[i].result[1].baseline_passed = <<>>
      ]_vars

\* C17 witness: a prompt whose primary call passed kept its verdict
\* although its baseline call failed, next to one whose baseline validated
\* differently from the primary.
C17_PassedDespiteBaselineError ==
    \E id \in DOMAIN frames : \E i, j \in DOMAIN frames[id].tasks :
        /\ frames[id].compare
        /\ frames[id].tasks[i].pc = "done"
        /\ frames[id].tasks[i].result # <<>>
        /\ frames[id].tasks[i].result[1].passed
        /\ frames[id].tasks[i].result[1].baseline_response = <<"[baseline error]">>
        /\ frames[id].tasks[i].result[1].baseline_passed = <<>>
        /\ frames[id].tasks[j].pc = "done"
        /\ frames[id].tasks[j].result # <<>>
        /\ ~frames[id].tasks[j].result[1].passed
        /\ frames[id].tasks[j].result[1].baseline_passed = <<TRUE>>

\* C18: a run's status becomes failed only when the run throws before any
\* per-prompt result has been produced, and its errors list then holds the
\* exception message alone; every other run that ends becomes completed.
C18_FailedOnlyBeforeAnyResult ==
    [][\A id \in DOMAIN runs :
         /\ (runs[id].status # "failed" /\ runs'[id].status = "failed")
               => /\ \A i \in DOMAIN frames[id].tasks : frames[id].tasks[i].result = <<>>
                  /\ Len(runs'[id].errors) = 1
                  /\ runs'[id].errors[1].prompt_id = 0
         /\ (runs[id].status \notin Terminal /\ runs'[id].status \in Terminal
             /\ \E i \in DOMAIN frames[id].tasks : frames[id].tasks[i].result # <<>>)
               => runs'[id].status = "completed"
      ]_vars

\* C19: no update of a run record (creation, start, loading with or
\* without truncation, aggregation, failure) decreases its total.
C19_TotalNeverDecreases ==
    [][\A id \in DOMAIN runs :
         /\ id \in DOMAIN runs'
         /\ runs'[id].total >= runs[id].total
      ]_vars

\* C19 witness: a run that failed after its two prompts had been counted
\* still reports total 2.
C19_TotalKeptOnFailure ==
    \E id \in DOMAIN runs :
        /\ runs[id].status = "failed"
        /\ runs[id].total = 2

\* C20: the errors list of a run record never has more than 20 entries,
\* however many prompts failed.
C20_ErrorsCapped ==
    \A id \in DOMAIN runs : Len(runs[id].errors) <= 20

\* C20 witness: a completed run with more than 20 failed prompts reports
\* the errors of the first 20.
C20_MoreFailuresThanCap ==
    \E id \in DOMAIN runs :
        /\ runs[id].status = "completed"
        /\ runs[id].failed > 20
        /\ Len(runs[id].errors) = 20
        /\ \A k \in 1 .. 20 : runs[id].errors[k].prompt_id = k

(***************************************************************************)
(* Further properties of the router.                                       *)
(***************************************************************************)
\* The sum of the weights of the first i configured variants.
CumulativeWeight(variants, i) == TotalWeight(SubSeq(variants, 1, i))

\* C21: for a draw r in 1 .. total, select_variant returns the variant i
\* with cum(i-1) < r <= cum(i), the first in configured order whose
\* cumulative weight reaches r; so the number of draws that select a
\* variant is its weight.
C21_FirstCumulativeMatch ==
    /\ \A k \in DOMAIN selection :
          LET sel == selection[k]
          IN  (sel.team \in DOMAIN routes /\ TotalWeight(routes[sel.team].ab_variants) > 0)
              => LET vs == routes[sel.team].ab_variants
                 IN  \E i \in DOMAIN vs :
                        /\ CumulativeWeight(vs, i - 1) < sel.rand
                        /\ sel.rand <= CumulativeWeight(vs, i)
                        /\ \A j \in 1 .. (i - 1) : CumulativeWeight(vs, j) < sel.rand
                        /\ sel.result = <<vs[i].name>>
    /\ \A t \in DOMAIN routes :
          LET vs == routes[t].ab_variants
          IN  \A i \in DOMAIN vs :
                 Cardinality({r \in 1 .. TotalWeight(vs) :
                                SelectVariant(routes, t, r) = <<vs[i].name>>}) = vs[i].weight

\* C21 witness: with weights 1 and 2 the draw 2 selected the second
\* variant.
C21_SecondByCumulativeWeight ==
    \E k \in DOMAIN selection :
        LET sel == selection[k]
        IN  /\ sel.team \in DOMAIN routes
            /\ Len(routes[sel.team].ab_variants) = 2
            /\ routes[sel.team].ab_variants[1].weight = 1
            /\ routes[sel.team].ab_variants[2].weight = 2
            /\ sel.rand = 2
            /\ sel.result = <<routes[sel.team].ab_variants[2].name>>

(***************************************************************************)
(* Further properties of the harness and of the run store.                 *)
(***************************************************************************)
\* C22: when a run completes, the stored summary is the one determined by
\* the prompts in promptset order and their outcomes alone, in every
\* interleaving of the tasks: result i belongs to prompt i, passed and
\* failed are the counts of the outcomes, the errors are those of the
\* failed calls in promptset order, and the category breakdown counts each
\* category's results.
C22_SummaryIndependentOfCompletionOrder ==
    [][\A id \in DOMAIN frames :
         (ExecuteRunResume(id) /\ GatherDone(frames[id]))
         => LET ts == frames[id].tasks
                res(i) == ts[i].result[1]
                r == runs'[id]
                failing == {i \in DOMAIN ts : HasError(res(i))}
                inCat(c) == {i \in DOMAIN ts : CategoryKey(res(i)) = c}
            IN  /\ \A i \in DOMAIN ts : res(i).prompt_id = i
                /\ r.status = "completed"
                /\ r.total = Len(ts)
                /\ r.passed = Cardinality({i \in DOMAIN ts : res(i).passed})
                /\ r.failed = Cardinality({i \in DOMAIN ts : ~res(i).passed})
                /\ r.pass_rate = PassRate(r.passed, Len(ts))
                /\ Len(r.errors) = Cardinality(failing)
                /\ \A k \in DOMAIN r.errors :
                      /\ r.errors[k].prompt_id \in failing
                      /\ r.errors[k].text = res(r.errors[k].prompt_id).error[1]
                      /\ \A m \in DOMAIN r.errors :
                            k < m => r.errors[k].prompt_id < r.errors[m].prompt_id
                /\ \A c \in {"uncategorized"} \cup (Categories \ {NoCategory}) :
                      IF inCat(c) = {}
                      THEN c \notin DOMAIN r.category_breakdown
                      ELSE /\ c \in DOMAIN r.category_breakdown
                           /\ r.category_breakdown[c].total = Cardinality(inCat(c))
                           /\ r.category_breakdown[c].passed =
                                 Cardinality({i \in inCat(c) : res(i).passed})
      ]_vars

\* C22 witness: a completed run of three prompts reports the errors of
\* its first and third prompt, in that order.
C22_ErrorsInPromptOrder ==
    \E id \in DOMAIN runs :
        /\ runs[id].status = "completed"
        /\ runs[id].total = 3
        /\ runs[id].passed = 1
        /\ Len(runs[id].errors) = 2
        /\ runs[id].errors[1].prompt_id = 1
        /\ runs[id].errors[2].prompt_id = 3

\* C23: no step of a worker task writes to the run record, and while a
\* worker task of a run has a call in flight no field of the run's record
\* changes: the record is written by the coordinating task only once all
\* tasks have joined.
C23_RecordWrittenOnlyAfterBarrier ==
    [][/\ (\E id \in DOMAIN frames : \E i \in DOMAIN frames[id].tasks :
              \/ TaskAcquire(id, i)
              \/ \E o \in CallOutcomes : TaskPrimaryReturns(id, i, o))
          => runs' = runs
       /\ \A id \in DOMAIN runs :
             (\E i \in DOMAIN frames[id].tasks :
                 frames[id].tasks[i].pc \in {"primary", "baseline"})
             => runs'[id] = runs[id]
      ]_vars

\* The calls a harness has in flight, primary and baseline together: each
\* is made by a task that holds a slot.
CallsInFlight(fr) ==
    Cardinality({i \in DOMAIN fr.tasks : fr.tasks[i].pc \in {"primary", "baseline"}})

\* C24: every slot a task takes is given back on every exit path of the
\* task: held slots plus free slots always equal concurrency, and when
\* run_promptset returns every slot is free.
C24_SlotsAlwaysReleased ==
    [][/\ \A id \in DOMAIN frames' :
             frames'[id].tasks # <<>> =>
                /\ frames'[id].sem >= 0
                /\ frames'[id].sem + CallsInFlight(frames'[id]) = frames'[id].concurrency
       /\ \A id \in DOMAIN frames :
             (CliResume(id) /\ GatherDone(frames[id]))
             => /\ frames[id].sem = frames[id].concurrency
                /\ frames'[id].sem = frames'[id].concurrency
      ]_vars

\* C24 witness: all three tasks of a run with comparison have ended, one
\* by a transport exception, one with a failed baseline call and one with
\* a failed validation, and both slots are free.
C24_AllPathsReleased ==
    \E id \in DOMAIN frames :
        LET fr == frames[id]
        IN  /\ fr.pc = "awaiting"
            /\ fr.compare
            /\ fr.concurrency = 2
            /\ fr.sem = 2
            /\ Len(fr.tasks) = 3
            /\ \A i \in DOMAIN fr.tasks : fr.tasks[i].pc = "done"
            /\ fr.tasks[1].result[1].error = <<"ConnectError">>
            /\ fr.tasks[2].result[1].baseline_response = <<"[baseline error]">>
            /\ fr.tasks[3].result[1].error = <<>>
            /\ ~fr.tasks[3].result[1].passed

\* C26: with comparison on, a task makes its baseline call only after its
\* own primary call has finished, and while it still holds its slot: the
\* calls in flight for a run, primary and baseline together, never exceed
\* concurrency.
C26_BaselineWithinSlot ==
    \A id \in DOMAIN frames :
        LET fr == frames[id]
        IN  fr.tasks # <<>> =>
               /\ CallsInFlight(fr) <= fr.concurrency
               /\ CallsInFlight(fr) + fr.sem <= fr.concurrency
               /\ \A i \in DOMAIN fr.tasks :
                     fr.tasks[i].pc = "baseline" =>
                        /\ fr.compare
                        /\ fr.pc = "awaiting" =>
                              /\ fr.tasks[i].result # <<>>
                              /\ fr.tasks[i].result[1].error = <<>>
                              /\ fr.tasks[i].result[1].baseline_response = <<>>

\* C26 witness: under concurrency 2 one task is in its baseline call, one
\* in its primary call, and the third waits for a slot.
C26_BaselineHoldsSlot ==
    \E id \in DOMAIN frames :
        LET fr == frames[id]
        IN  /\ fr.compare
            /\ fr.concurrency = 2
            /\ fr.sem = 0
            /\ Len(fr.tasks) = 3
            /\ fr.tasks[1].pc = "baseline"
            /\ fr.tasks[2].pc = "primary"
            /\ fr.tasks[3].pc = "waiting"

\* The sums of a category breakdown over the categories `keys`.
RECURSIVE SumOfTotals(_, _)
SumOfTotals(breakdown, keys) ==
    IF keys = {} THEN 0
    ELSE LET c == CHOOSE k \in keys : TRUE
         IN  breakdown[c].total + SumOfTotals(breakdown, keys \ {c})

RECURSIVE SumOfPassed(_, _)
SumOfPassed(breakdown, keys) ==
    IF keys = {} THEN 0
    ELSE LET c == CHOOSE k \in keys : TRUE
         IN  breakdown[c].passed + SumOfPassed(breakdown, keys \ {c})

\* C25: in the category breakdown of a completed run every result is
\* counted in one category, its own or "uncategorized": the totals of the
\* categories sum to total, their passed counts sum to passed, and in each
\* category passed <= total.
C25_BreakdownSumsToTotals ==
    \A id \in DOMAIN runs :
        runs[id].status = "completed" =>
            LET bd == runs[id].category_breakdown
            IN  /\ DOMAIN bd \subseteq {"uncategorized"} \cup (Categories \ {NoCategory})
                /\ SumOfTotals(bd, DOMAIN bd) = runs[id].total
                /\ SumOfPassed(bd, DOMAIN bd) = runs[id].passed
                /\ \A c \in DOMAIN bd :
                      /\ bd[c].total >= 1
                      /\ bd[c].passed >= 0
                      /\ bd[c].passed <= bd[c].total

\* C25 witness: a completed run of three prompts with two results in the
\* category math, one of them passed, and one failed result without
\* category.
C25_TwoCategories ==
    \E id \in DOMAIN runs :
        /\ runs[id].status = "completed"
        /\ runs[id].total = 3
        /\ runs[id].passed = 1
        /\ DOMAIN runs[id].category_breakdown = {"uncategorized", "math"}
        /\ runs[id].category_breakdown["math"] = [total |-> 2, passed |-> 1]
        /\ runs[id].category_breakdown["uncategorized"] = [total |-> 1, passed |-> 0]

(***************************************************************************)
(* Further properties of the gateway.                                      *)
(***************************************************************************)
\* C27: an inbound predict call to a known team is counted exactly once,
\* under one status among success, timeout and error.
C27_CountedExactlyOnce ==
    /\ Len(gw.counted) <= 1
    /\ (gw.pc = "responded" /\ gw.team \in DOMAIN routes)
          => /\ Len(gw.counted) = 1
             /\ gw.counted[1] \in {"success", "timeout", "error"}

\* C28: the dispatcher relays the backend's body with the tracking headers,
\* as a success, only when the backend answered with a success status.
C28_RelayOnlyOnBackendSuccess ==
    [][\A o \in BackendOutcomes :
         (GatewayBackendReturns(o) /\ gw'.response[1].headers # <<>>)
         => o = "ok"
      ]_vars

\* C29: when the weights sum to total > 0, the scan of select_variant
\* returns inside its loop for every draw in 1 .. total: the fallback to
\* the first configured variant after the loop is never reached.
C29_FallbackNeverReached ==
    /\ \A k \in DOMAIN selection :
          LET sel == selection[k]
          IN  (sel.team \in DOMAIN routes /\ TotalWeight(routes[sel.team].ab_variants) > 0)
              => /\ ScanVariants(routes[sel.team].ab_variants, sel.rand, 0) # <<>>
                 /\ sel.result = ScanVariants(routes[sel.team].ab_variants, sel.rand, 0)
    /\ \A t \in DOMAIN routes :
          \A r \in 1 .. TotalWeight(routes[t].ab_variants) :
             ScanVariants(routes[t].ab_variants, r, 0) # <<>>

\* C29 witness: the largest draw of a team whose second variant has weight
\* 0 was answered by the loop at the first variant.
C29_LargestDrawInsideLoop ==
    \E k \in DOMAIN selection :
        LET sel == selection[k]
        IN  /\ sel.team \in DOMAIN routes
            /\ Len(routes[sel.team].ab_variants) = 2
            /\ routes[sel.team].ab_variants[1].weight = 2
            /\ routes[sel.team].ab_variants[2].weight = 0
            /\ sel.rand = 2
            /\ sel.result = <<routes[sel.team].ab_variants[1].name>>

(***************************************************************************)
(* Further properties of the run store.                                    *)
(***************************************************************************)
\* C30: with several runs executing on the event loop, those of a
\* benchmark included, a step changes the record of a run only when it is
\* a step of that run's own _execute_run, and then no other record
\* changes; no record is removed; and the summary a run stores on
\* completion is the one of its own prompts' outcomes.
C30_RunsIsolated ==
    [][/\ DOMAIN runs \subseteq DOMAIN runs'
       /\ \A id \in DOMAIN runs :
             runs'[id] # runs[id] =>
                /\ \/ ExecuteRunBegin(id)
                   \/ \E l \in StoreLoads : ExecuteRunLoad(id, l)
                   \/ ExecuteRunResume(id)
                /\ \A other \in DOMAIN runs \ {id} : runs'[other] = runs[other]
                /\ DOMAIN runs' = DOMAIN runs
                /\ (runs'[id].status = "completed" /\ frames[id].tasks # <<>>) =>
                      /\ runs'[id].total = Len(frames[id].tasks)
                      /\ runs'[id].passed =
                            Cardinality({i \in DOMAIN frames[id].tasks :
                                           frames[id].tasks[i].result[1].passed})
                      /\ runs'[id].failed = runs'[id].total - runs'[id].passed
      ]_vars

\* C30 witness: a run of the harness endpoint has completed with its one
\* prompt passed while a run of a benchmark still has its call in flight,
\* its record untouched since it was counted.
C30_OneDoneOtherInFlight ==
    \E a, b \in DOMAIN runs :
        /\ frames[a].origin = "api"
        /\ runs[a].status = "completed"
        /\ runs[a].total = 1
        /\ runs[a].passed = 1
        /\ frames[b].origin = "bench"
        /\ runs[b].status = "running"
        /\ runs[b].total = 1
        /\ runs[b].passed = 0
        /\ \E i \in DOMAIN frames[b].tasks : frames[b].tasks[i].pc = "primary"

====
